---- MODULE Spec2Model ----
(***************************************************************************)
(* A model of filter_forms/forms.py: a list of field descriptions is       *)
(* turned into a form class (filterform_factory); each request creates a   *)
(* form instance (_FilterForm.__init__), validates it and turns the        *)
(* cleaned values into a dictionary of query predicates (get_filter_dict,  *)
(* filter) or into a readable summary (__unicode__).                       *)
(*                                                                         *)
(* Python strings that the code cuts or joins (field names, filter method  *)
(* names, predicate keys) are sequences of one-character strings, so that  *)
(* format, rstrip, endswith and partition are computed and not assumed.    *)
(* Python values (cleaned values) are tagged records.  A dict is a TLA+    *)
(* function from its keys to its values.                                   *)
(***************************************************************************)
EXTENDS Integers, Sequences, FiniteSets, TLC

VARIABLES
    phase,               \* "config" until filterform_factory has run, then "serving"
    field_descriptions,  \* the list handed to filterform_factory (shared by all forms)
    form,                \* the form instance of the current request
    last                 \* what the last call did: its outcome, as the caller sees it

vars == <<phase, field_descriptions, form, last>>

---------------------------------------------------------------------------
(* Bounds *)

\* most descriptors in the list given to filterform_factory
MaxDescs == 1

---------------------------------------------------------------------------
(* Strings *)

f_author == <<"a","u","t","h","o","r">>
f_title  == <<"t","i","t","l","e">>
f_pages  == <<"p","a","g","e","s">>
f_price  == <<"p","r","i","c","e">>
f_tag_   == <<"t","a","g","_">>

m_exact       == << >>
m_icontains   == <<"i","c","o","n","t","a","i","n","s">>
m_contains    == <<"c","o","n","t","a","i","n","s">>
m_gte         == <<"g","t","e">>
m_lte         == <<"l","t","e">>
m_gt          == <<"g","t">>
m_lt          == <<"l","t">>
m_range       == <<"r","a","n","g","e">>
m_minmax      == <<"m","i","n","m","a","x">>
m_min_max     == <<"m","i","n","_","m","a","x">>
m_inner_range == <<"i","n","n","e","r","_","r","a","n","g","e">>

sep == <<"_","_">>

\* str.rstrip('_'): every trailing underscore goes
RECURSIVE rstrip(_)
rstrip(s) ==
    IF s = << >> THEN s
    ELSE IF s[Len(s)] = "_" THEN rstrip(SubSeq(s, 1, Len(s) - 1))
    ELSE s

\* str.endswith
endswith(s, suffix) ==
    /\ Len(suffix) <= Len(s)
    /\ SubSeq(s, Len(s) - Len(suffix) + 1, Len(s)) = suffix

\* s.partition(x)[0]: what precedes the FIRST occurrence of x in s (all of s if none)
partition0(s, x) ==
    LET at == {i \in 1..(Len(s) - Len(x) + 1) : SubSeq(s, i, i + Len(x) - 1) = x}
    IN  IF at = {} THEN s
        ELSE LET first == CHOOSE i \in at : \A j \in at : i <= j
             IN  SubSeq(s, 1, first - 1)

---------------------------------------------------------------------------
(* Python values and their truth value *)

PyNone     == [t |-> "None"]
PyStr(s)   == [t |-> "str", s |-> s]
PyInt(i)   == [t |-> "int", i |-> i]
PyList(l)  == [t |-> "list", l |-> l]

\* bool(v), as `if values:` and `if value` evaluate it
Truthy(v) ==
    CASE v.t = "None" -> FALSE
      [] v.t = "str"  -> v.s # ""
      [] v.t = "int"  -> v.i # 0
      [] v.t = "list" -> Len(v.l) > 0

\* a dict: a function; d.update(e)
EmptyDict == << >>
DictUpdate(d, e) ==
    [k \in (DOMAIN d) \cup (DOMAIN e) |-> IF k \in DOMAIN e THEN e[k] ELSE d[k]]

\* the orders in which a dict's items may be iterated
Orderings(S) ==
    {o \in [1..Cardinality(S) -> S] : \A i, j \in DOMAIN o : o[i] = o[j] => i = j}

---------------------------------------------------------------------------
(* The alias table and the predicate builder *)

\* FILTERMETHODS: the names that expand to a pair of lookups
FILTERMETHODS == (m_min_max :> <<m_gte, m_lte>>) @@ (m_inner_range :> <<m_gt, m_lt>>)

\* '{0}__{1}'.format(fieldname, filtermethod).rstrip('_')
FilterKey(fieldname, filtermethod) == rstrip(fieldname \o sep \o filtermethod)

Ok(v)      == [status |-> "ok", value |-> v]
Raised(e)  == [status |-> e, value |-> EmptyDict]

\* dict((key(m), v) for (m, v) in zip(filtermethods, values) if v)
RECURSIVE ZipDict(_, _, _, _)
ZipDict(fieldname, filtermethods, values, i) ==
    IF i > Len(filtermethods) THEN EmptyDict
    ELSE LET rest == ZipDict(fieldname, filtermethods, values, i + 1)
             here == IF Truthy(values[i])
                     THEN FilterKey(fieldname, filtermethods[i]) :> values[i]
                     ELSE EmptyDict
         IN  DictUpdate(here, rest)

\* _FilterForm._field_as_filter(fieldname, values) on form f.  The parameter
\* `values` is overwritten with self.cleaned_data[fieldname] on entry.
field_as_filter(f, fieldname, values) ==
    IF fieldname \notin DOMAIN f.fields THEN Raised("KeyError")
    ELSE IF ~f.has_cleaned THEN Raised("AttributeError")
    ELSE IF fieldname \notin DOMAIN f.cleaned_data THEN Raised("KeyError")
    ELSE
      LET own    == f.cleaned_data[fieldname]
          method == f.fields[fieldname].filtermethod
      IN  IF method \in DOMAIN FILTERMETHODS
          THEN LET filtermethods == FILTERMETHODS[method]
               IN  IF own.t # "list" THEN Raised("AssertionError")
                   ELSE IF Len(own.l) # Len(filtermethods) THEN Raised("AssertionError")
                   ELSE Ok(ZipDict(fieldname, filtermethods, own.l, 1))
          ELSE Ok(FilterKey(fieldname, method) :> own)

\* the loop body without its `if values:` test
FilterDictStepNoSkip(f, fieldname, values, acc) ==
    IF acc.status # "ok" THEN acc
    ELSE LET r == field_as_filter(f, fieldname, values)
         IN  IF r.status # "ok" THEN r
             ELSE Ok(DictUpdate(acc.value, r.value))

\* the body of get_filter_dict's loop for one item
FilterDictStep(f, fieldname, values, acc) ==
    IF acc.status # "ok" THEN acc
    ELSE IF ~Truthy(values) THEN acc
    ELSE LET r == field_as_filter(f, fieldname, values)
         IN  IF r.status # "ok" THEN r
             ELSE Ok(DictUpdate(acc.value, r.value))

\* _FilterForm.get_filter_dict(cleaned_data), the items iterated in `order`
RECURSIVE FilterDictLoop(_, _, _, _)
FilterDictLoop(f, cleaned_data, order, i) ==
    IF i = 0 THEN Ok(EmptyDict)
    ELSE FilterDictStep(f, order[i], cleaned_data[order[i]],
                        FilterDictLoop(f, cleaned_data, order, i - 1))

get_filter_dict(f, cleaned_data, order) ==
    FilterDictLoop(f, cleaned_data, order, Len(order))

---------------------------------------------------------------------------
(* Field descriptions *)

NoArgument == [given |-> FALSE, dict |-> EmptyDict]
Given(d)   == [given |-> TRUE, dict |-> d]

\* create_field(...): args and widget_attrs default to a fresh empty dict;
\* widget "" stands for None
create_field(label, field, fieldtype, filtermethod, args, widget, widget_attrs) ==
    [label        |-> label,
     field        |-> field,
     fieldtype    |-> fieldtype,
     filtermethod |-> filtermethod,
     args         |-> IF args.given THEN args.dict ELSE EmptyDict,
     widget       |-> widget,
     widget_attrs |-> IF widget_attrs.given THEN widget_attrs.dict ELSE EmptyDict]

NotRequired == Given("required" :> "False")

\* the calls of create_field a configuration may make
FieldCatalogue ==
    { \* the BookFilterForm of the module docstring, its two ranges as range fields
      create_field("Author", f_author, "CharField", m_icontains, NotRequired, "", NoArgument),
      create_field("Number of Pages", f_pages, "IntegerRangeField", m_minmax, NotRequired, "", NoArgument),
      create_field("Price Range", f_price, "IntegerRangeField", m_range, NotRequired, "", NoArgument),
      \* exact match, required (no args), with a widget override and attributes
      create_field("Title", f_title, "CharField", m_exact, NoArgument, "TextInput",
                   Given("class" :> "wide")),
      \* no label, and a field name that ends in an underscore
      create_field("", f_tag_, "CharField", m_exact, NotRequired, "", NoArgument),
      \* a single lookup on a number
      create_field("Pages", f_pages, "IntegerField", m_gte, NotRequired, "", NoArgument),
      \* an alias of FILTERMETHODS
      create_field("Pages", f_pages, "IntegerRangeField", m_min_max, NotRequired, "", NoArgument),
      \* names that exist neither in this module nor in django.forms
      create_field("Author", f_author, "NoSuchField", m_icontains, NotRequired, "", NoArgument),
      create_field("Title", f_title, "CharField", m_exact, NotRequired, "NoSuchWidget", NoArgument) }

---------------------------------------------------------------------------
(* _FilterForm.__init__ *)

\* globals() of forms.py and the names of django.forms the catalogue can hit
ModuleGlobals == {"IntegerRangeField", "FloatRangeField", "DecimalRangeField",
                  "CharRangeField", "RangeWidget"}
DjangoForms   == {"CharField", "IntegerField", "TextInput", "Textarea"}

\* globals().get(name, None), then getattr(forms, name)
Resolves(name) == name \in ModuleGlobals \cup DjangoForms

\* BoundField.label: the field's label, or the pretty-printed field name
FieldLabel(args, fieldname) ==
    IF "label" \in DOMAIN args
    THEN [given |-> TRUE, text |-> args["label"], name |-> << >>]
    ELSE [given |-> FALSE, text |-> "", name |-> fieldname]

\* FieldClass(**args), then the attributes __init__ sets on the field
MakeField(desc, args) ==
    [fieldtype    |-> desc.fieldtype,
     required     |-> IF "required" \in DOMAIN args THEN args["required"] = "True" ELSE TRUE,
     label        |-> FieldLabel(args, desc.field),
     widget       |-> IF "widget" \in DOMAIN args THEN args["widget"] ELSE "",
     widget_attrs |-> desc.widget_attrs,
     filtermethod |-> desc.filtermethod]

\* desc.args after the assignments of lines 128-140 up to the point reached:
\* `args` is the descriptor's own dict, not a copy
ArgsAfterLabel(desc) ==
    IF desc.label # "" THEN DictUpdate(desc.args, "label" :> desc.label) ELSE desc.args

ArgsAfterWidget(desc) ==
    IF desc.widget # "" THEN DictUpdate(ArgsAfterLabel(desc), "widget" :> desc.widget)
    ELSE ArgsAfterLabel(desc)

\* the loop body taking a widget it cannot find for None
InitStepIgnoresWidget(acc, i) ==
    LET desc == acc.descs[i] IN
    IF acc.status # "ok" THEN acc
    ELSE IF ~Resolves(desc.fieldtype)
    THEN [acc EXCEPT !.status = "AttributeError",
                     !.descs[i].args = ArgsAfterLabel(desc)]
    ELSE [acc EXCEPT !.descs[i].args = ArgsAfterLabel(desc),
                     !.fields = DictUpdate(acc.fields,
                                   desc.field :> MakeField(desc, ArgsAfterLabel(desc))),
                     !.order  = IF desc.field \in DOMAIN acc.fields THEN acc.order
                                ELSE Append(acc.order, desc.field)]

\* one turn of the loop of __init__ on descriptor i, from the state `acc`
InitStep(acc, i) ==
    LET desc == acc.descs[i] IN
    IF acc.status # "ok" THEN acc
    ELSE IF ~Resolves(desc.fieldtype)
    THEN [acc EXCEPT !.status = "AttributeError",
                     !.descs[i].args = ArgsAfterLabel(desc)]
    ELSE IF desc.widget # "" /\ ~Resolves(desc.widget)
    THEN [acc EXCEPT !.status = "AttributeError",
                     !.descs[i].args = ArgsAfterLabel(desc)]
    ELSE [acc EXCEPT !.descs[i].args = ArgsAfterWidget(desc),
                     !.fields = DictUpdate(acc.fields,
                                   desc.field :> MakeField(desc, ArgsAfterWidget(desc))),
                     !.order  = IF desc.field \in DOMAIN acc.fields THEN acc.order
                                ELSE Append(acc.order, desc.field)]

RECURSIVE InitLoop(_, _)
InitLoop(descs, i) ==
    IF i = 0 THEN [status |-> "ok", descs |-> descs, fields |-> EmptyDict, order |-> << >>]
    ELSE InitStep(InitLoop(descs, i - 1), i)

\* _FilterForm.__init__ over the shared descriptor list
InitFields(descs) == InitLoop(descs, Len(descs))

\* filterform_factory(field_descriptions): defines the class and returns it,
\* without looking at the descriptors
filterform_factory(descs) == [status |-> "ok"]

---------------------------------------------------------------------------
(* Validation: django's fields and _RangeField.compress *)

IsRange(fieldtype) == fieldtype \in {"IntegerRangeField", "CharRangeField"}
BaseOf(fieldtype) ==
    IF fieldtype \in {"IntegerField", "IntegerRangeField"} THEN "Integer" ELSE "Char"

Clean(v)   == [ok |-> TRUE, value |-> v]
Invalid    == [ok |-> FALSE, value |-> PyNone]

\* int(raw) for the raw inputs of the model
ParseInt(raw) ==
    CASE raw = "0"  -> Clean(PyInt(0))
      [] raw = "10" -> Clean(PyInt(10))
      [] raw = "20" -> Clean(PyInt(20))
      [] OTHER      -> Invalid

\* CharField.clean / IntegerField.clean
clean_scalar(base, required, raw) ==
    IF raw = "" THEN (IF required THEN Invalid
                      ELSE IF base = "Char" THEN Clean(PyStr("")) ELSE Clean(PyNone))
    ELSE IF base = "Char" THEN Clean(PyStr(raw))
    ELSE ParseInt(raw)

\* _RangeField.compress(data_list): the two halves cleaned once more, which
\* leaves a cleaned value as it is
compress(data_list) ==
    IF Len(data_list) > 0 THEN PyList(data_list) ELSE PyNone

\* MultiValueField.clean on a pair of raw inputs, its two sub-fields not required
clean_range(base, required, raw) ==
    IF raw[1] = "" /\ raw[2] = ""
    THEN (IF required THEN Invalid ELSE Clean(compress(<< >>)))
    ELSE IF required /\ (raw[1] = "" \/ raw[2] = "") THEN Invalid
    ELSE LET a == clean_scalar(base, FALSE, raw[1])
             b == clean_scalar(base, FALSE, raw[2])
         IN  IF a.ok /\ b.ok THEN Clean(compress(<<a.value, b.value>>)) ELSE Invalid

\* a field's clean() on the request's input for it: a one-element list for a
\* plain field, the two inputs of the RangeWidget for a range field
clean_field(field, raw) ==
    IF IsRange(field.fieldtype)
    THEN clean_range(BaseOf(field.fieldtype), field.required, raw)
    ELSE clean_scalar(BaseOf(field.fieldtype), field.required, raw[1])

\* the raw inputs a request may carry for a field
RawTexts   == {<<"">>, <<"x">>}
RawNumbers == {<<"">>, <<"x">>, <<"0">>, <<"10">>}
RawPairs   == {<<"", "">>, <<"10", "20">>, <<"10", "">>, <<"0", "20">>}
RawChoices(field) ==
    IF IsRange(field.fieldtype) THEN RawPairs
    ELSE IF BaseOf(field.fieldtype) = "Integer" THEN RawNumbers ELSE RawTexts

\* the cleaned values a caller may give for a field of each kind (what the raw
\* inputs above clean to)
TextValues   == {PyStr(""), PyStr("x")}
NumberValues == {PyNone, PyInt(0), PyInt(10)}
PairValues   == {PyNone, PyList(<<PyInt(10), PyInt(20)>>), PyList(<<PyInt(10), PyNone>>),
                 PyList(<<PyInt(0), PyInt(20)>>)}
ValueChoices(field) ==
    IF IsRange(field.fieldtype) THEN PairValues
    ELSE IF BaseOf(field.fieldtype) = "Integer" THEN NumberValues ELSE TextValues

NoForm ==
    [exists |-> FALSE, is_bound |-> FALSE, data |-> EmptyDict, fields |-> EmptyDict,
     order |-> << >>, validated |-> FALSE, has_cleaned |-> FALSE,
     cleaned_data |-> EmptyDict]

FieldErrors(f) == {n \in DOMAIN f.fields : ~clean_field(f.fields[n], f.data[n]).ok}

\* what is_valid() answers for the form: bound, and no field fails to clean
FormValid(f) == f.exists /\ f.is_bound /\ FieldErrors(f) = {}

\* BaseForm.full_clean, run once per form by the first is_valid().  On errors the
\* framework either deletes cleaned_data or keeps the fields that cleaned
\* (`keeps`), depending on its release.
full_clean(f, keeps) ==
    IF f.validated THEN f
    ELSE IF ~f.is_bound THEN [f EXCEPT !.validated = TRUE]
    ELSE LET good == (DOMAIN f.fields) \ FieldErrors(f)
             cd   == [n \in good |-> clean_field(f.fields[n], f.data[n]).value]
         IN  IF FieldErrors(f) = {} \/ keeps
             THEN [f EXCEPT !.validated = TRUE, !.has_cleaned = TRUE, !.cleaned_data = cd]
             ELSE [f EXCEPT !.validated = TRUE]

---------------------------------------------------------------------------
(* __unicode__ *)

\* operatormapping of __unicode__
operatormapping ==
    (sep \o m_gt :> ">") @@ (sep \o m_gte :> ">=") @@ (sep \o m_lt :> "<") @@
    (sep \o m_lte :> "<=") @@ (sep \o m_contains :> "contains") @@
    (sep \o m_range :> "between")

\* the for/else over operatormapping: the operator and the field name of a key
KeyOperator(key) ==
    LET hits == {fs \in DOMAIN operatormapping : endswith(key, fs)} IN
    IF hits = {} THEN [operator |-> "=", fieldname |-> key]
    ELSE LET fs == CHOOSE h \in hits : TRUE
         IN  [operator |-> operatormapping[fs], fieldname |-> partition0(key, fs)]

\* the three formats of an entry
EntryFormat(value) ==
    CASE value.t = "str"  -> "quoted"
      [] value.t = "list" -> "quoted list"
      [] OTHER            -> "plain"

\* the loop that collects `entries`, the items of `filters` iterated in `order`
RECURSIVE EntriesLoop(_, _, _, _)
EntriesLoop(f, filters, order, i) ==
    IF i = 0 THEN Ok(EmptyDict)
    ELSE LET acc == EntriesLoop(f, filters, order, i - 1)
             key == order[i]
             ko  == KeyOperator(key)
         IN  IF acc.status # "ok" THEN acc
             ELSE IF ko.fieldname \notin DOMAIN f.fields THEN Raised("KeyError")
             ELSE Ok(DictUpdate(acc.value,
                        ko.fieldname :> [label    |-> f.fields[ko.fieldname].label,
                                         operator |-> ko.operator,
                                         value    |-> filters[key],
                                         format   |-> EntryFormat(filters[key])]))

\* entries[field.name] for field in self if field.name in entries
RECURSIVE JoinLines(_, _, _)
JoinLines(order, entries, i) ==
    IF i > Len(order) THEN << >>
    ELSE (IF order[i] \in DOMAIN entries THEN <<entries[order[i]]>> ELSE << >>)
         \o JoinLines(order, entries, i + 1)

\* the fields named by the lines of a summary, in the summary's order
RECURSIVE LineFields(_, _, _)
LineFields(order, entries, i) ==
    IF i > Len(order) THEN << >>
    ELSE (IF order[i] \in DOMAIN entries THEN <<order[i]>> ELSE << >>)
         \o LineFields(order, entries, i + 1)

---------------------------------------------------------------------------
(* The state machine *)

Result(op, status) ==
    [op |-> op, status |-> status, wasValid |-> FALSE, hasArg |-> FALSE,
     arg |-> EmptyDict, filters |-> EmptyDict, queried |-> FALSE,
     lines |-> << >>, lineFields |-> << >>]

Init ==
    /\ phase = "config"
    /\ field_descriptions = << >>
    /\ form = NoForm
    /\ last = Result("none", "ok")

\* configuration: one more create_field(...) in the list
CreateField(desc) ==
    /\ phase = "config"
    /\ Len(field_descriptions) < MaxDescs
    /\ field_descriptions' = Append(field_descriptions, desc)
    /\ last' = Result("create_field", "ok")
    /\ UNCHANGED <<phase, form>>

\* configuration ends: FilterForm = filterform_factory(field_descriptions)
FilterformFactory ==
    /\ phase = "config"
    /\ phase' = "serving"
    /\ last' = Result("filterform_factory", filterform_factory(field_descriptions).status)
    /\ UNCHANGED <<field_descriptions, form>>

\* the request inputs a form with these fields may be bound to
DataChoices(fields) ==
    {d \in [DOMAIN fields -> RawNumbers \cup RawPairs] :
        \A n \in DOMAIN fields : d[n] \in RawChoices(fields[n])}

\* the cleaned-data mappings a caller may hand to get_filter_dict and filter
CleanedChoices(fields) ==
    {d \in [DOMAIN fields -> TextValues \cup NumberValues \cup PairValues] :
        \A n \in DOMAIN fields : d[n] \in ValueChoices(fields[n])}

\* a request: form = FilterForm(data), or FilterForm() when unbound
NewForm(bound) ==
    /\ phase = "serving"
    /\ LET r == InitFields(field_descriptions) IN
       /\ field_descriptions' = r.descs
       /\ last' = Result("init", r.status)
       /\ IF r.status = "ok"
          THEN \E data \in (IF bound THEN DataChoices(r.fields) ELSE {EmptyDict}) :
                 form' = [NoForm EXCEPT !.exists = TRUE, !.is_bound = bound,
                                        !.data = data, !.fields = r.fields,
                                        !.order = r.order]
          ELSE form' = NoForm
    /\ UNCHANGED phase

\* form.is_valid()
IsValid(keeps) ==
    /\ form.exists
    /\ form' = full_clean(form, keeps)
    /\ last' = [Result("is_valid", "ok") EXCEPT !.wasValid = FormValid(form)]
    /\ UNCHANGED <<phase, field_descriptions>>

\* form.get_filter_dict(cleaned_data)
GetFilterDict(cleaned_data) ==
    /\ form.exists
    /\ \E order \in Orderings(DOMAIN cleaned_data) :
         LET r == get_filter_dict(form, cleaned_data, order) IN
         last' = [Result("get_filter_dict", r.status) EXCEPT
                     !.wasValid = FormValid(form), !.hasArg = TRUE,
                     !.arg = cleaned_data, !.filters = r.value]
    /\ UNCHANGED <<phase, field_descriptions, form>>

\* the test asking only whether the form is bound
FilterRefusesUnbound(supplied, f) == ~supplied /\ ~f.is_bound

\* `not cleaned_data and not self.is_valid()`: filter raises its RuntimeError
FilterRefuses(supplied, f) == ~supplied /\ ~FormValid(f)

\* form.filter(query) and form.filter(query, cleaned_data)
Filter(hasArg, arg, keeps) ==
    /\ form.exists
    /\ LET supplied == hasArg /\ DOMAIN arg # {}
           f1       == IF supplied THEN form ELSE full_clean(form, keeps)
           refused  == FilterRefuses(supplied, f1)
           cleaned  == IF supplied THEN arg
                       ELSE IF refused THEN EmptyDict ELSE f1.cleaned_data
       IN
       /\ form' = f1
       /\ \E order \in Orderings(DOMAIN cleaned) :
            LET r == get_filter_dict(f1, cleaned, order) IN
            last' = [Result("filter", IF refused THEN "RuntimeError" ELSE r.status) EXCEPT
                        !.wasValid = FormValid(form), !.hasArg = hasArg, !.arg = arg,
                        !.filters = IF refused THEN EmptyDict ELSE r.value,
                        !.queried = ~refused /\ r.status = "ok"]
    /\ UNCHANGED <<phase, field_descriptions>>

\* unicode(form)
Unicode(keeps) ==
    /\ form.exists
    /\ LET f1 == full_clean(form, keeps) IN
       /\ form' = f1
       /\ IF ~FormValid(f1)
          \* super(self, _FilterForm): the arguments are in the wrong order
          THEN last' = Result("unicode", "TypeError")
          ELSE \E o1 \in Orderings(DOMAIN f1.cleaned_data) :
                 LET fd == get_filter_dict(f1, f1.cleaned_data, o1) IN
                 IF fd.status # "ok"
                 THEN last' = [Result("unicode", fd.status) EXCEPT !.wasValid = TRUE]
                 ELSE \E o2 \in Orderings(DOMAIN fd.value) :
                        LET e == EntriesLoop(f1, fd.value, o2, Len(o2)) IN
                        last' = [Result("unicode", e.status) EXCEPT
                                    !.wasValid = TRUE,
                                    !.filters = fd.value,
                                    !.lines = JoinLines(f1.order, e.value, 1),
                                    !.lineFields = LineFields(f1.order, e.value, 1)]
    /\ UNCHANGED <<phase, field_descriptions>>

\* full_clean has a choice to make only on the first validation of a bound
\* form with errors
Keeps(f) ==
    IF f.exists /\ f.is_bound /\ ~f.validated /\ FieldErrors(f) # {} THEN BOOLEAN
    ELSE {FALSE}

Next ==
    \/ \E desc \in FieldCatalogue : CreateField(desc)
    \/ FilterformFactory
    \/ \E bound \in BOOLEAN : NewForm(bound)
    \/ \E keeps \in Keeps(form) : IsValid(keeps)
    \/ \E cd \in CleanedChoices(form.fields) : GetFilterDict(cd)
    \/ \E keeps \in Keeps(form) : Filter(FALSE, EmptyDict, keeps)
    \/ \E cd \in CleanedChoices(form.fields) : Filter(TRUE, cd, FALSE)
    \/ \E keeps \in Keeps(form) : Unicode(keeps)

Spec == Init /\ [][Next]_vars

---------------------------------------------------------------------------
(* Properties *)

\* None, '' or an empty sequence
Blank(v) ==
    \/ v.t = "None"
    \/ v.t = "str" /\ v.s = ""
    \/ v.t = "list" /\ Len(v.l) = 0

\* the lookups a filter method stands for
LookupsOf(method) ==
    IF method \in DOMAIN FILTERMETHODS THEN FILTERMETHODS[method] ELSE <<method>>

\* "<field>__<operator>", and the bare field for the empty operator
NamedKey(fieldname, operator) ==
    IF operator = << >> THEN fieldname ELSE fieldname \o sep \o operator

\* the keys the code derives from field n of form f
KeysOfField(f, n) ==
    {FilterKey(n, LookupsOf(f.fields[n].filtermethod)[i]) :
        i \in 1..Len(LookupsOf(f.fields[n].filtermethod))}

\* the last call built a predicate dictionary, from this cleaned data
BuiltFilters == last.op \in {"get_filter_dict", "filter"} /\ last.status = "ok"
Supplied     == last.hasArg /\ DOMAIN last.arg # {}
UsedData     == IF Supplied THEN last.arg ELSE form.cleaned_data
\* form.filter(query) returned, having used the form's own cleaned data
FilteredOwn  == last.op = "filter" /\ last.status = "ok" /\ ~last.hasArg

\* C1: the predicate dictionary has no key from a field whose cleaned value is
\* blank: each key comes from a field whose value is not blank (and, on the form's
\* own data, from a half of a pair that is not blank); with every value blank the
\* dictionary is empty.
C1_NoKeyFromBlank ==
    BuiltFilters =>
      /\ \A k \in DOMAIN last.filters :
           \E n \in DOMAIN UsedData : ~Blank(UsedData[n]) /\ k \in KeysOfField(form, n)
      /\ (\A n \in DOMAIN UsedData : Blank(UsedData[n])) => last.filters = EmptyDict
      /\ ~Supplied =>
           \A n \in DOMAIN UsedData :
             LET ops == LookupsOf(form.fields[n].filtermethod) IN
             (Len(ops) = 2 /\ UsedData[n].t = "list") =>
               \A i \in 1..2 : Blank(UsedData[n].l[i]) =>
                                 FilterKey(n, ops[i]) \notin DOMAIN last.filters

\* a blank value was given, and no key was built from it
C1_Witness ==
    /\ last.op = "get_filter_dict" /\ last.status = "ok"
    /\ form.has_cleaned
    /\ \E n \in DOMAIN last.arg : Blank(last.arg[n])
    /\ last.filters = EmptyDict

\* C2 as stated: filter on a form that is not valid always raises the
\* RuntimeError and never calls query.filter, with or without cleaned_data.
C2_AlwaysRefused ==
    (last.op = "filter" /\ ~last.wasValid) =>
      (last.status = "RuntimeError" /\ ~last.queried)

\* C2 amended: filter(query) with no (or an empty) cleaned_data on a form that is
\* not valid raises the RuntimeError and does not call query.filter; with a
\* non-empty cleaned_data the check is skipped and no RuntimeError is raised.
C2_RefusedWithoutCleanedData ==
    (last.op = "filter" /\ ~last.wasValid) =>
      IF Supplied THEN last.status # "RuntimeError"
      ELSE last.status = "RuntimeError" /\ ~last.queried /\ last.filters = EmptyDict

C2_Witness ==
    /\ last.op = "filter" /\ ~last.wasValid /\ ~last.hasArg
    /\ form.is_bound
    /\ last.status = "RuntimeError"

\* a descriptor names a field type or a widget that does not exist
NamesUnknown(descs) ==
    \E i \in 1..Len(descs) :
       \/ descs[i].fieldtype \notin ModuleGlobals \cup DjangoForms
       \/ descs[i].widget # "" /\ descs[i].widget \notin ModuleGlobals \cup DjangoForms

\* C6 as stated: an unknown field type or widget makes filterform_factory fail.
C6_FactoryFailsFast ==
    (last.op = "filterform_factory" /\ NamesUnknown(field_descriptions)) =>
      last.status # "ok"

\* C6 amended: filterform_factory never fails; an unknown field type or widget
\* makes every creation of a form instance fail with an AttributeError (and
\* only that does), and no instance results.
C6_InstanceCreationFails ==
    /\ last.op = "filterform_factory" => last.status = "ok"
    /\ last.op = "init" =>
         /\ last.status = "AttributeError" <=> NamesUnknown(field_descriptions)
         /\ last.status = "ok" <=> form.exists

C6_Witness ==
    /\ phase = "serving"
    /\ last.op = "init" /\ last.status = "AttributeError"
    /\ \E i \in 1..Len(field_descriptions) : field_descriptions[i].widget = "NoSuchWidget"

\* C3: a single lookup OP on field F with a non-empty value V gives the key
\* F__OP, or F alone when OP is empty, with the value V; it is the only
\* predicate of a form with this one field.  (V is taken truthy here: what
\* becomes of 0 is C5's matter.)
C3_KeyIsFieldAndOperator ==
    FilteredOwn =>
      \A n \in DOMAIN form.cleaned_data :
        LET m == form.fields[n].filtermethod
            v == form.cleaned_data[n]
        IN  (m \notin DOMAIN FILTERMETHODS /\ Truthy(v)) =>
              /\ NamedKey(n, m) \in DOMAIN last.filters
              /\ last.filters[NamedKey(n, m)] = v
              /\ DOMAIN form.fields = {n} => DOMAIN last.filters = {NamedKey(n, m)}

\* C4: filter method minmax or range on field F with a pair (lo, hi), both given,
\* yields F__gte: lo and F__lte: hi.
C4_RangeIsGteLte ==
    FilteredOwn =>
      \A n \in DOMAIN form.cleaned_data :
        LET m == form.fields[n].filtermethod
            v == form.cleaned_data[n]
        IN  (m \in {m_minmax, m_range} /\ v.t = "list" /\ Truthy(v.l[1]) /\ Truthy(v.l[2])) =>
              /\ n \o sep \o m_gte \in DOMAIN last.filters
              /\ n \o sep \o m_lte \in DOMAIN last.filters
              /\ last.filters[n \o sep \o m_gte] = v.l[1]
              /\ last.filters[n \o sep \o m_lte] = v.l[2]

\* C5: every value that is not None, '' or an empty sequence (0 included) gives
\* its key; of a pair under an alias, every half that is not blank gives its key.
C5_NonEmptyContributes ==
    FilteredOwn =>
      \A n \in DOMAIN form.cleaned_data :
        LET m == form.fields[n].filtermethod
            v == form.cleaned_data[n]
        IN  IF m \in DOMAIN FILTERMETHODS
            THEN v.t = "list" =>
                   \A i \in 1..2 : ~Blank(v.l[i]) =>
                      FilterKey(n, FILTERMETHODS[m][i]) \in DOMAIN last.filters
            ELSE ~Blank(v) => FilterKey(n, m) \in DOMAIN last.filters

\* C7: __unicode__ on a form that is not valid does not fail.
C7_InvalidFormHasSummary ==
    (last.op = "unicode" /\ ~last.wasValid) => last.status = "ok"

\* the symbol of a lookup: operatormapping, '=' for what it does not list
SymbolOf(operator) ==
    IF sep \o operator \in DOMAIN operatormapping /\ operator # << >>
    THEN operatormapping[sep \o operator] ELSE "="

\* the fields that gave a key to the predicate dictionary, in the form's order
RECURSIVE Contributors(_, _, _)
Contributors(f, filters, i) ==
    IF i > Len(f.order) THEN << >>
    ELSE (IF \E k \in DOMAIN filters : k \in KeysOfField(f, f.order[i])
          THEN <<f.order[i]>> ELSE << >>) \o Contributors(f, filters, i + 1)

\* the lookups of the supported vocabulary, and the aliases
SupportedVocabulary ==
    {m_gte, m_lte, m_gt, m_lt, m_icontains, m_contains, m_range, m_exact}
    \cup DOMAIN FILTERMETHODS

\* every field of the form uses the vocabulary, and no field name ends in an
\* underscore
WellFormedNames(f) ==
    \A n \in DOMAIN f.fields :
       rstrip(n) = n /\ f.fields[n].filtermethod \in SupportedVocabulary

\* C8: on a valid form whose fields use the supported lookups __unicode__
\* succeeds, with one line per field that gave a predicate, in the form's field
\* order, each with the symbol of one of the field's lookups ('=' for a lookup
\* that has no symbol).
C8_SummaryOfValidForm ==
    (last.op = "unicode" /\ last.wasValid /\ WellFormedNames(form)) =>
      /\ last.status = "ok"
      /\ last.lineFields = Contributors(form, last.filters, 1)
      /\ \A i \in 1..Len(last.lines) :
           \E j \in 1..Len(LookupsOf(form.fields[last.lineFields[i]].filtermethod)) :
              last.lines[i].operator =
                 SymbolOf(LookupsOf(form.fields[last.lineFields[i]].filtermethod)[j])

\* C9: once the form class exists, no step changes the descriptor list.
C9_DescriptorsNeverChange ==
    [][phase = "serving" => field_descriptions' = field_descriptions]_vars

\* C10: with a non-empty cleaned_data argument D, get_filter_dict and filter
\* succeed and give what D alone determines: what the form would give if D were
\* its own cleaned data.
C10_ResultFromArgumentAlone ==
    (last.op \in {"get_filter_dict", "filter"} /\ Supplied) =>
      /\ last.status = "ok"
      /\ \E order \in Orderings(DOMAIN last.arg) :
           last.filters =
             get_filter_dict([form EXCEPT !.has_cleaned = TRUE, !.cleaned_data = last.arg],
                             last.arg, order).value

====
